---- MODULE Spec2Model ----
(***************************************************************************)
(* The inode reference cache of fuse_inode.c: a hash table of struct       *)
(* bf_inode entries keyed by inode number, guarded by one static mutex.    *)
(* Threads of the dispatch layer call bf_inode_get, bf_inode_get_ref,      *)
(* bf_inode_unlink and bf_inode_put; every call is modelled statement      *)
(* group by statement group, so that the interleavings the mutex allows    *)
(* are the interleavings of the model.                                     *)
(***************************************************************************)
EXTENDS Integers, FiniteSets, TLC

(* ------------------------------ bounds --------------------------------- *)

\* number of dispatch threads
NumThreads == 2
\* number of distinct inode numbers the callers use
NumIds == 1
\* the callers hold at most this many open references on one inode at a time
MaxRefs == 2
\* largest release_count a caller passes to bf_inode_put
MaxRelease == 2
\* width in bits of the model's unsigned counter (uint64_t in the source;
\* the counts of the model stay far below 2^CountBits, and TLC's integers
\* are narrower than 64 bits)
CountBits == 8

Threads == 1..NumThreads
Ids == 1..NumIds
\* heap cells calloc can hand out: one per key plus one spare
Addrs == 1..(NumIds + 1)
Modulus == 2^CountBits

(* ----------------------------- constants ------------------------------- *)

\* errno values of <errno.h>
ENOMEM == 12
EEXIST == 17
ENOENT == 2

NULL == 0
NoThread == 0
\* ERR_PTR(-ENOMEM)
ErrPtr == 0 - ENOMEM
IS_ERR(p) == p < 0

Ops == {"get", "get_ref", "unlink", "put"}

VARIABLES
  lock,       \* the static mutex: its holder, or NoThread
  table,      \* the rhashtable: the set of heap cells linked into it
  heap,       \* heap cells: struct bf_inode fields, and whether allocated
  pc,         \* each thread's position in its current call, or "idle"
  op,         \* each thread's current operation
  ino,        \* argument ino of the call
  cnt,        \* argument release_count of bf_inode_put
  bfi,        \* local bfi of the call; the pointer the caller got once returned
  delete,     \* local delete of bf_inode_put
  ret,        \* what the thread's last call returned:
              \* "none", "ptr", "err", "true", "false"
  created,    \* history: __bf_inode_get took the create-if-absent path
  aborted,    \* a BUG_ON fired: the process is gone
  refs,       \* history: per key, references granted by bf_inode_get_ref
              \* minus references given back through bf_inode_put
  marked,     \* history: per cell, bf_inode_unlink found it since creation
  doubleFree, \* history: free() was passed a cell that was not allocated
  seq         \* history: the table as the calls returned so far leave it when
              \* each is run alone, in one piece, in the order of their return

vars == <<lock, table, heap, pc, op, ino, cnt, bfi, delete, ret, created,
          aborted, refs, marked, doubleFree, seq>>

locals == <<op, ino, cnt>>
history == <<refs, marked, doubleFree, seq>>

(* --------------------------- struct bf_inode --------------------------- *)

ZeroInode == [key |-> 0, open_count |-> 0, unlinked |-> FALSE, alloc |-> FALSE]

\* uint64_t arithmetic
U64Add(a, b) == (a + b) % Modulus
U64Sub(a, b) == (a - b) % Modulus

\* rhashtable_lookup_fast(&table, &ino, params): the entry with that key, or NULL
Matches(key) == {a \in table : heap[a].key = key}
RhtLookup(key) == IF Matches(key) = {} THEN NULL ELSE CHOOSE a \in Matches(key) : TRUE

\* rhashtable_lookup_insert_fast: 0 and the entry linked, or -EEXIST and
\* nothing. The insertion of an absent key is taken to succeed: a table that
\* cannot grow for want of memory is not part of these specifications.
RhtInsertRet(key) == IF Matches(key) = {} THEN 0 ELSE 0 - EEXIST
RhtInsertTable(a, key) == IF Matches(key) = {} THEN table \cup {a} ELSE table

\* rhashtable_remove_fast: 0 and the entry unlinked, or -ENOENT
RhtRemoveRet(a) == IF a \in table THEN 0 ELSE 0 - ENOENT

\* mutant: malloc in place of calloc, the cell keeps what the last owner left
Malloc(a) == [heap[a] EXCEPT !.alloc = TRUE]

\* calloc(1, sizeof *bfi): a zeroed cell, or NULL. The allocator hands out the
\* lowest free cell (the claims do not read addresses); it may always fail
FreeCells == {a \in Addrs : ~heap[a].alloc}
CallocResults ==
  {NULL} \cup {a \in FreeCells : \A b \in FreeCells : a <= b}
Calloc(a) == [ZeroInode EXCEPT !.alloc = TRUE]

(* ------------------- the four functions, each in one piece ------------- *)

\* what the table holds for a key: nothing, or an entry's count and flag
Absent == [present |-> FALSE, open_count |-> 0, unlinked |-> FALSE]
Entry(c, u) == [present |-> TRUE, open_count |-> c, unlinked |-> u]

\* the table of the running program, read per key
Abs ==
  [i \in Ids |->
     IF Matches(i) = {} THEN Absent
     ELSE Entry(heap[RhtLookup(i)].open_count, heap[RhtLookup(i)].unlinked)]

\* __bf_inode_get run alone on S: the entry of key i, made when absent; fail
\* says whether calloc fails when it is called
SeqInodeGet(S, i, fail) ==
  IF S[i].present THEN [state |-> S, err |-> FALSE]
  ELSE IF fail THEN [state |-> S, err |-> TRUE]
  ELSE [state |-> [S EXCEPT ![i] = Entry(0, FALSE)], err |-> FALSE]

\* bf_inode_get run alone
SeqGet(S, i, fail) ==
  LET g == SeqInodeGet(S, i, fail)
  IN [state |-> g.state, result |-> IF g.err THEN "err" ELSE "ptr"]

\* bf_inode_get_ref run alone
SeqGetRef(S, i, fail) ==
  LET g == SeqInodeGet(S, i, fail)
  IN IF g.err THEN [state |-> g.state, result |-> "err"]
     ELSE [state |-> [g.state EXCEPT ![i].open_count = U64Add(@, 1)],
           result |-> "ptr"]

\* bf_inode_unlink run alone
SeqUnlink(S, i) ==
  IF S[i].present
  THEN [state |-> [S EXCEPT ![i].unlinked = TRUE], result |-> "false"]
  ELSE [state |-> S, result |-> "true"]

\* bf_inode_put run alone; "abort" when a BUG_ON fires
SeqPut(S, i, n, fail) ==
  LET g == SeqInodeGet(S, i, fail)
      c == U64Sub(g.state[i].open_count, n)
  IN IF g.err \/ g.state[i].open_count < n
     THEN [state |-> g.state, result |-> "abort"]
     ELSE IF c > 0
     THEN [state |-> [g.state EXCEPT ![i].open_count = c], result |-> "false"]
     ELSE [state |-> [g.state EXCEPT ![i] = Absent],
           result |-> IF g.state[i].unlinked THEN "true" ELSE "false"]

SeqOp(o, S, i, n, fail) ==
  CASE o = "get" -> SeqGet(S, i, fail)
    [] o = "get_ref" -> SeqGetRef(S, i, fail)
    [] o = "unlink" -> SeqUnlink(S, i)
    [] OTHER -> SeqPut(S, i, n, fail)

(* -------------------------------- Init --------------------------------- *)

\* bf_inode_init succeeded: an empty table, the mutex free, no thread in a call
Init ==
  /\ lock = NoThread
  /\ table = {}
  /\ heap = [a \in Addrs |-> ZeroInode]
  /\ pc = [t \in Threads |-> "idle"]
  /\ op = [t \in Threads |-> "get"]
  /\ ino = [t \in Threads |-> 1]
  /\ cnt = [t \in Threads |-> 0]
  /\ bfi = [t \in Threads |-> NULL]
  /\ delete = [t \in Threads |-> FALSE]
  /\ ret = [t \in Threads |-> "none"]
  /\ created = [t \in Threads |-> FALSE]
  /\ aborted = FALSE
  /\ refs = [i \in Ids |-> 0]
  /\ marked = [a \in Addrs |-> FALSE]
  /\ doubleFree = FALSE
  /\ seq = [i \in Ids |-> Absent]

(* ------------------------------- calls --------------------------------- *)

\* mutant: a lock that does not exclude (the owner is overwritten)
MutexLockNoWait(t) ==
  lock' = t

\* mutex_lock(&lock): the caller blocks until the mutex is free
MutexLock(t) ==
  /\ lock = NoThread
  /\ lock' = t

\* thread t calls operation o with arguments i, n. Each of the four
\* functions starts with mutex_lock, and a thread blocked in it has done
\* nothing yet, so the call and the lock acquisition are one step. No call
\* is made once bf_inode_destroy has run.
Enter(t, o, i, n) ==
  /\ ~aborted
  /\ \A u \in Threads : pc[u] # "destroyed"
  /\ pc[t] = "idle"
  /\ MutexLock(t)
  /\ pc' = [pc EXCEPT ![t] = IF o = "unlink" THEN "unlink" ELSE "get"]
  /\ op' = [op EXCEPT ![t] = o]
  /\ ino' = [ino EXCEPT ![t] = i]
  /\ cnt' = [cnt EXCEPT ![t] = n]
  /\ bfi' = [bfi EXCEPT ![t] = NULL]
  /\ ret' = [ret EXCEPT ![t] = "none"]
  /\ UNCHANGED <<table, heap, delete, created, aborted, history>>

\* the dispatch layer calls any operation with any argument
Call(t) ==
  \E o \in Ops, i \in Ids, n \in 0..MaxRelease :
    /\ o # "put" => n = 0
    /\ o = "get_ref" => refs[i] < MaxRefs
    /\ Enter(t, o, i, n)

\* mutant: bf_inode_get goes on like bf_inode_get_ref and takes a reference
AfterGetTakesRef(o) ==
  CASE o \in {"get", "get_ref"} -> "incr"
    [] OTHER -> "check"

\* where a caller of __bf_inode_get continues
AfterGet(o) ==
  CASE o = "get" -> "unlock"
    [] o = "get_ref" -> "incr"
    [] OTHER -> "check"

\* mutant: __bf_inode_get without the lookup, every call takes the create path
InodeLookupAlwaysMiss(t) ==
  /\ ~aborted
  /\ pc[t] = "get"
  /\ bfi' = [bfi EXCEPT ![t] = NULL]
  /\ pc' = [pc EXCEPT ![t] = "alloc"]
  /\ UNCHANGED <<lock, table, heap, locals, delete, ret, created, aborted, history>>

\* __bf_inode_get, the lookup: return the entry when the table has it
InodeLookup(t) ==
  /\ ~aborted
  /\ pc[t] = "get"
  /\ bfi' = [bfi EXCEPT ![t] = RhtLookup(ino[t])]
  /\ pc' = [pc EXCEPT ![t] = IF RhtLookup(ino[t]) # NULL THEN AfterGet(op[t]) ELSE "alloc"]
  /\ UNCHANGED <<lock, table, heap, locals, delete, ret, created, aborted, history>>

\* __bf_inode_get, create-if-absent: calloc, set key and open_count, insert
InodeCreate(t) ==
  /\ ~aborted
  /\ pc[t] = "alloc"
  /\ \E a \in CallocResults :
       IF a = NULL
       THEN /\ bfi' = [bfi EXCEPT ![t] = ErrPtr]
            /\ pc' = [pc EXCEPT ![t] = AfterGet(op[t])]
            /\ UNCHANGED <<table, heap, aborted, marked>>
       ELSE /\ heap' = [heap EXCEPT ![a] =
                          [Calloc(a) EXCEPT !.key = ino[t], !.open_count = 0]]
            /\ marked' = [marked EXCEPT ![a] = FALSE]
            /\ table' = RhtInsertTable(a, ino[t])
            /\ bfi' = [bfi EXCEPT ![t] = a]
            /\ IF RhtInsertRet(ino[t]) = EEXIST
               THEN /\ aborted' = TRUE
                    /\ pc' = [pc EXCEPT ![t] = "abort"]
               ELSE /\ aborted' = aborted
                    /\ pc' = [pc EXCEPT ![t] = AfterGet(op[t])]
  /\ created' = [created EXCEPT ![t] = TRUE]
  /\ UNCHANGED <<lock, locals, delete, ret, refs, doubleFree, seq>>

\* __bf_inode_get, create-if-absent when rhashtable_lookup_insert_fast fails
\* for a reason other than a duplicate key (out of memory, table full): ret
\* is not EEXIST, so the BUG_ON passes and the new cell is returned although
\* the table does not hold it
InodeCreateInsertFails(t) ==
  /\ ~aborted
  /\ pc[t] = "alloc"
  /\ \E a \in CallocResults \ {NULL} :
       /\ heap' = [heap EXCEPT ![a] =
                     [Calloc(a) EXCEPT !.key = ino[t], !.open_count = 0]]
       /\ marked' = [marked EXCEPT ![a] = FALSE]
       /\ bfi' = [bfi EXCEPT ![t] = a]
  /\ pc' = [pc EXCEPT ![t] = AfterGet(op[t])]
  /\ created' = [created EXCEPT ![t] = TRUE]
  /\ UNCHANGED <<lock, table, locals, delete, ret, aborted, refs, doubleFree, seq>>

\* mutant: the error path returns without mutex_unlock
GetRefIncrEarlyReturn(t) ==
  /\ ~aborted
  /\ pc[t] = "incr"
  /\ IF IS_ERR(bfi[t])
     THEN /\ pc' = [pc EXCEPT ![t] = "idle"]
          /\ ret' = [ret EXCEPT ![t] = "err"]
          /\ UNCHANGED <<heap, refs>>
     ELSE /\ heap' = [heap EXCEPT ![bfi[t]].open_count = U64Add(@, 1)]
          /\ refs' = [refs EXCEPT ![ino[t]] = @ + 1]
          /\ pc' = [pc EXCEPT ![t] = "unlock"]
          /\ ret' = ret
  /\ UNCHANGED <<lock, table, locals, bfi, delete, created, aborted,
                 marked, doubleFree, seq>>

\* bf_inode_get_ref after __bf_inode_get: skip on error, else ++open_count
GetRefIncr(t) ==
  /\ ~aborted
  /\ pc[t] = "incr"
  /\ IF IS_ERR(bfi[t])
     THEN UNCHANGED <<heap, refs>>
     ELSE /\ heap' = [heap EXCEPT ![bfi[t]].open_count = U64Add(@, 1)]
          /\ refs' = [refs EXCEPT ![ino[t]] = @ + 1]
  /\ pc' = [pc EXCEPT ![t] = "unlock"]
  /\ UNCHANGED <<lock, table, locals, bfi, delete, ret, created, aborted,
                 marked, doubleFree, seq>>

\* mutant: the entry is found but its flag is not set
UnlinkMarkNoSet(t) ==
  /\ ~aborted
  /\ pc[t] = "unlink"
  /\ bfi' = [bfi EXCEPT ![t] = RhtLookup(ino[t])]
  /\ IF RhtLookup(ino[t]) # NULL
     THEN marked' = [marked EXCEPT ![RhtLookup(ino[t])] = TRUE]
     ELSE UNCHANGED marked
  /\ pc' = [pc EXCEPT ![t] = "unlock"]
  /\ UNCHANGED <<lock, table, heap, locals, delete, ret, created, aborted,
                 refs, doubleFree, seq>>

\* mutant: the flag is flipped (^= true) instead of set
UnlinkMarkToggle(t) ==
  /\ ~aborted
  /\ pc[t] = "unlink"
  /\ bfi' = [bfi EXCEPT ![t] = RhtLookup(ino[t])]
  /\ IF RhtLookup(ino[t]) # NULL
     THEN /\ heap' = [heap EXCEPT ![RhtLookup(ino[t])].unlinked = ~@]
          /\ marked' = [marked EXCEPT ![RhtLookup(ino[t])] = TRUE]
     ELSE UNCHANGED <<heap, marked>>
  /\ pc' = [pc EXCEPT ![t] = "unlock"]
  /\ UNCHANGED <<lock, table, locals, delete, ret, created, aborted,
                 refs, doubleFree, seq>>

\* mutant: the entry is looked up with the creating __bf_inode_get
UnlinkMarkCreates(t) ==
  /\ ~aborted
  /\ pc[t] = "unlink"
  /\ LET found == RhtLookup(ino[t])
         fresh == CallocResults \ {NULL}
         a == IF found # NULL THEN found
              ELSE IF fresh = {} THEN NULL ELSE CHOOSE b \in fresh : TRUE
     IN /\ bfi' = [bfi EXCEPT ![t] = a]
        /\ IF a = NULL
           THEN UNCHANGED <<heap, marked, table>>
           ELSE /\ heap' = [heap EXCEPT ![a] =
                              IF found # NULL THEN [@ EXCEPT !.unlinked = TRUE]
                              ELSE [Calloc(a) EXCEPT !.key = ino[t],
                                                     !.unlinked = TRUE]]
                /\ marked' = [marked EXCEPT ![a] = TRUE]
                /\ table' = table \cup {a}
  /\ pc' = [pc EXCEPT ![t] = "unlock"]
  /\ UNCHANGED <<lock, locals, delete, ret, created, aborted,
                 refs, doubleFree, seq>>

\* bf_inode_unlink under the lock: look the entry up, mark it when found
UnlinkMark(t) ==
  /\ ~aborted
  /\ pc[t] = "unlink"
  /\ bfi' = [bfi EXCEPT ![t] = RhtLookup(ino[t])]
  /\ IF RhtLookup(ino[t]) # NULL
     THEN /\ heap' = [heap EXCEPT ![RhtLookup(ino[t])].unlinked = TRUE]
          /\ marked' = [marked EXCEPT ![RhtLookup(ino[t])] = TRUE]
     ELSE UNCHANGED <<heap, marked>>
  /\ pc' = [pc EXCEPT ![t] = "unlock"]
  /\ UNCHANGED <<lock, table, locals, delete, ret, created, aborted,
                 refs, doubleFree, seq>>

\* mutant: the check of open_count against release_count is missing
PutBugNoCount(t) ==
  \/ bfi[t] = NULL
  \/ IS_ERR(bfi[t])

\* the three BUG_ONs of bf_inode_put
PutBug(t) ==
  \/ bfi[t] = NULL
  \/ IS_ERR(bfi[t])
  \/ heap[bfi[t]].open_count < cnt[t]

PutCheck(t) ==
  /\ ~aborted
  /\ pc[t] = "check"
  /\ IF PutBug(t)
     THEN /\ aborted' = TRUE
          /\ pc' = [pc EXCEPT ![t] = "abort"]
     ELSE /\ aborted' = aborted
          /\ pc' = [pc EXCEPT ![t] = "decr"]
  /\ UNCHANGED <<lock, table, heap, locals, bfi, delete, ret, created, history>>

\* free(bfi)
Free(h, a) == [h EXCEPT ![a].alloc = FALSE]

\* bf_inode_put, goto out: the entry stays, with the new count h holds
PutKeep(t, h) ==
  /\ heap' = h
  /\ pc' = [pc EXCEPT ![t] = "unlock"]
  /\ UNCHANGED <<table, delete, aborted, doubleFree>>

\* bf_inode_put, the count is 0: read unlinked, unlink from the table
\* (BUG_ON a failure), free
PutDestroy(t, h) ==
  /\ delete' = [delete EXCEPT ![t] = h[bfi[t]].unlinked]
  /\ IF RhtRemoveRet(bfi[t]) # 0
     THEN /\ aborted' = TRUE
          /\ pc' = [pc EXCEPT ![t] = "abort"]
          /\ heap' = h
          /\ UNCHANGED <<table, doubleFree>>
     ELSE /\ table' = table \ {bfi[t]}
          /\ heap' = Free(h, bfi[t])
          /\ doubleFree' = (doubleFree \/ ~h[bfi[t]].alloc)
          /\ pc' = [pc EXCEPT ![t] = "unlock"]
          /\ aborted' = aborted

\* mutant: the test is >= 0, true of every unsigned count: nothing is removed
PutDecrNeverRemove(t) ==
  /\ ~aborted
  /\ pc[t] = "decr"
  /\ refs' = [refs EXCEPT ![ino[t]] = @ - cnt[t]]
  /\ LET c == U64Sub(heap[bfi[t]].open_count, cnt[t])
         h == [heap EXCEPT ![bfi[t]].open_count = c]
     IN IF c >= 0 THEN PutKeep(t, h) ELSE PutDestroy(t, h)
  /\ UNCHANGED <<lock, locals, bfi, ret, created, marked, seq>>

\* mutant: the test is > 1: the entry goes while one reference is left
PutDecrOffByOne(t) ==
  /\ ~aborted
  /\ pc[t] = "decr"
  /\ refs' = [refs EXCEPT ![ino[t]] = @ - cnt[t]]
  /\ LET c == U64Sub(heap[bfi[t]].open_count, cnt[t])
         h == [heap EXCEPT ![bfi[t]].open_count = c]
     IN IF c > 1 THEN PutKeep(t, h) ELSE PutDestroy(t, h)
  /\ UNCHANGED <<lock, locals, bfi, ret, created, marked, seq>>

\* mutant: delete is read before the test of the count
PutDecrEarlyDelete(t) ==
  /\ ~aborted
  /\ pc[t] = "decr"
  /\ refs' = [refs EXCEPT ![ino[t]] = @ - cnt[t]]
  /\ LET c == U64Sub(heap[bfi[t]].open_count, cnt[t])
         h == [heap EXCEPT ![bfi[t]].open_count = c]
     IN IF c > 0
        THEN /\ heap' = h
             /\ delete' = [delete EXCEPT ![t] = h[bfi[t]].unlinked]
             /\ pc' = [pc EXCEPT ![t] = "unlock"]
             /\ UNCHANGED <<table, aborted, doubleFree>>
        ELSE PutDestroy(t, h)
  /\ UNCHANGED <<lock, locals, bfi, ret, created, marked, seq>>

\* bf_inode_put after the BUG_ONs: subtract release_count; leave when
\* references remain, else destroy the entry
PutDecr(t) ==
  /\ ~aborted
  /\ pc[t] = "decr"
  /\ refs' = [refs EXCEPT ![ino[t]] = @ - cnt[t]]
  /\ LET c == U64Sub(heap[bfi[t]].open_count, cnt[t])
         h == [heap EXCEPT ![bfi[t]].open_count = c]
     IN IF c > 0 THEN PutKeep(t, h) ELSE PutDestroy(t, h)
  /\ UNCHANGED <<lock, locals, bfi, ret, created, marked, seq>>

\* what the call hands back to its caller
Result(t) ==
  CASE op[t] \in {"get", "get_ref"} -> IF IS_ERR(bfi[t]) THEN "err" ELSE "ptr"
    [] op[t] = "unlink" -> IF bfi[t] = NULL THEN "true" ELSE "false"
    [] OTHER -> IF delete[t] THEN "true" ELSE "false"

\* mutant: the error path of bf_inode_get / bf_inode_get_ref returns without
\* mutex_unlock
MutexUnlockLeakOnError(t) ==
  /\ ~aborted
  /\ pc[t] = "unlock"
  /\ lock' = IF IS_ERR(bfi[t]) THEN lock ELSE NoThread
  /\ ret' = [ret EXCEPT ![t] = Result(t)]
  /\ pc' = [pc EXCEPT ![t] = "idle"]
  /\ bfi' = [bfi EXCEPT ![t] = IF op[t] \in {"get", "get_ref"} THEN @ ELSE NULL]
  /\ op' = [op EXCEPT ![t] = "get"]
  /\ ino' = [ino EXCEPT ![t] = 1]
  /\ cnt' = [cnt EXCEPT ![t] = 0]
  /\ delete' = [delete EXCEPT ![t] = FALSE]
  /\ created' = [created EXCEPT ![t] = FALSE]
  /\ seq' = SeqOp(op[t], seq, ino[t], cnt[t], IS_ERR(bfi[t])).state
  /\ UNCHANGED <<table, heap, aborted, refs, marked, doubleFree>>

\* mutex_unlock(&lock); return: the locals go out of scope, the caller keeps
\* the result
MutexUnlock(t) ==
  /\ ~aborted
  /\ pc[t] = "unlock"
  /\ lock' = NoThread
  /\ ret' = [ret EXCEPT ![t] = Result(t)]
  /\ pc' = [pc EXCEPT ![t] = "idle"]
  /\ bfi' = [bfi EXCEPT ![t] = IF op[t] \in {"get", "get_ref"} THEN @ ELSE NULL]
  /\ op' = [op EXCEPT ![t] = "get"]
  /\ ino' = [ino EXCEPT ![t] = 1]
  /\ cnt' = [cnt EXCEPT ![t] = 0]
  /\ delete' = [delete EXCEPT ![t] = FALSE]
  /\ created' = [created EXCEPT ![t] = FALSE]
  /\ seq' = SeqOp(op[t], seq, ino[t], cnt[t], IS_ERR(bfi[t])).state
  /\ UNCHANGED <<table, heap, aborted, refs, marked, doubleFree>>

\* bf_inode_destroy, called at shutdown when no call is in progress:
\* rhashtable_destroy releases the table; the entries are left as they are
\* (the XXX of the source: no per-entry free)
Destroy(t) ==
  /\ ~aborted
  /\ \A u \in Threads : pc[u] = "idle"
  /\ lock = NoThread
  /\ table' = {}
  /\ pc' = [pc EXCEPT ![t] = "destroyed"]
  /\ UNCHANGED <<lock, heap, locals, bfi, delete, ret, created, aborted, history>>

Step(t) ==
  \/ InodeLookup(t)
  \/ InodeCreate(t)
  \/ GetRefIncr(t)
  \/ PutCheck(t)
  \/ PutDecr(t)
  \/ MutexUnlock(t)

Next == \E t \in Threads : Call(t) \/ UnlinkMark(t) \/ Step(t)

Spec == Init /\ [][Next]_vars

\* the cache from bf_inode_init to bf_inode_destroy
NextShutdown == \E t \in Threads : Call(t) \/ UnlinkMark(t) \/ Step(t) \/ Destroy(t)

SpecShutdown == Init /\ [][NextShutdown]_vars

\* bf_inode_get and bf_inode_get_ref over a table whose insertion may fail;
\* the references are bounded both as the cells and as the one-at-a-time run
\* count them, since the two differ once an insertion has failed
CallGet(t) ==
  \E o \in {"get", "get_ref"}, i \in Ids :
    /\ o = "get_ref" => (refs[i] < MaxRefs /\ seq[i].open_count < MaxRefs)
    /\ Enter(t, o, i, 0)

NextInsertFault ==
  \E t \in Threads :
    \/ CallGet(t)
    \/ InodeLookup(t)
    \/ InodeCreate(t)
    \/ InodeCreateInsertFails(t)
    \/ GetRefIncr(t)
    \/ MutexUnlock(t)

SpecInsertFault == Init /\ [][NextInsertFault]_vars

\* only bf_inode_get_ref and bf_inode_put are called
CallRefPut(t) ==
  \E o \in {"get_ref", "put"}, i \in Ids, n \in 0..MaxRelease :
    /\ o # "put" => n = 0
    /\ o = "get_ref" => refs[i] < MaxRefs
    /\ Enter(t, o, i, n)

NextRefPut == \E t \in Threads : CallRefPut(t) \/ Step(t)

SpecRefPut == Init /\ [][NextRefPut]_vars

\* the inode the workers open and close
WorkId == CHOOSE i \in Ids : \A j \in Ids : i <= j

\* a worker opens the inode, and closes it once when the open succeeded
CallWorker(t) ==
  IF ret[t] = "ptr"
  THEN Enter(t, "put", WorkId, 1)
  ELSE Enter(t, "get_ref", WorkId, 0)

NextWorkers == \E t \in Threads : CallWorker(t) \/ Step(t)

SpecWorkers == Init /\ [][NextWorkers]_vars

TypeOK ==
  /\ lock \in Threads \cup {NoThread}
  /\ table \subseteq Addrs
  /\ \A a \in Addrs : heap[a].open_count \in 0..(Modulus - 1)
  /\ \A t \in Threads : bfi[t] \in Addrs \cup {NULL, ErrPtr}

(* ------------------------------- claims -------------------------------- *)

UnlinkTrueIffNoRefs ==
  \A t \in Threads :
    (pc[t] = "unlock" /\ op[t] = "unlink") =>
      (Result(t) = "true" <=> refs[ino[t]] = 0)

\* C4: bf_inode_put returns true exactly when its subtraction left the count
\* at 0 and bf_inode_unlink found this entry since it was created; a put
\* that leaves the count above 0 keeps the entry in the table.
PutReturnsUnlinked ==
  \A t \in Threads :
    (pc[t] = "unlock" /\ op[t] = "put") =>
      /\ Result(t) = "true" <=>
           (heap[bfi[t]].open_count = 0 /\ marked[bfi[t]])
      /\ heap[bfi[t]].open_count > 0 => bfi[t] \in table

\* a put is about to return true
PutReturnsUnlinkedWitness ==
  \E t \in Threads :
    pc[t] = "unlock" /\ op[t] = "put" /\ cnt[t] > 0 /\ Result(t) = "true"

RemovedOnlyByDrainingPut ==
  [][\A a \in Addrs :
       /\ (a \in table /\ a \notin table') =>
            \E t \in Threads :
              /\ pc[t] = "decr" /\ pc'[t] = "unlock" /\ bfi[t] = a
              /\ heap'[a].open_count = 0
       /\ \A t \in Threads :
            (pc[t] = "decr" /\ pc'[t] # "decr" /\ bfi[t] = a /\ a \in table) =>
              (heap'[a].open_count = 0 <=> a \notin table')]_vars

\* a put has just taken the last reference and the entry out of the table
RemovedOnlyByDrainingPutWitness ==
  \E t \in Threads :
    /\ pc[t] = "unlock" /\ op[t] = "put" /\ cnt[t] = MaxRelease
    /\ bfi[t] \notin table /\ heap[bfi[t]].open_count = 0

\* C7: put reaches its subtraction only with release_count <= open_count
\* (a larger release_count stops the process at the BUG_ON), so no count
\* ever wraps around: every count stays within the references held.
NoUnderflow ==
  /\ \A a \in Addrs : heap[a].open_count <= MaxRefs
  /\ \A t \in Threads : pc[t] = "decr" => cnt[t] <= heap[bfi[t]].open_count

\* the process stopped at a put that released more than an open entry holds
NoUnderflowWitness ==
  \E t \in Threads :
    /\ aborted /\ pc[t] = "abort" /\ op[t] = "put"
    /\ bfi[t] \in table
    /\ heap[bfi[t]].open_count > 0 /\ cnt[t] > heap[bfi[t]].open_count

\* C8: a put on a key that has no entry stops the process, whatever the
\* release count: it never gets past the BUG_ONs.
PutMissingIsFatal ==
  \A t \in Threads :
    (op[t] = "put" /\ created[t]) => pc[t] \in {"check", "abort"}

\* C9: once calloc has failed in get or get_ref, no step of the call changes
\* the table, a cell or a reference count, the call does not stop the
\* process, and it returns the error with the mutex released.
AllocFailureClean ==
  [][\A t \in Threads :
       (op[t] \in {"get", "get_ref"} /\ pc[t] \in {"alloc", "incr", "unlock"}
          /\ IS_ERR(bfi'[t])) =>
         /\ table' = table /\ heap' = heap /\ refs' = refs
         /\ pc'[t] # "abort"
         /\ pc'[t] = "idle" => (lock' = NoThread /\ ret'[t] = "err")]_vars

\* a get_ref has returned the error while the key had no entry
AllocFailureCleanWitness ==
  \E t \in Threads :
    /\ pc[t] = "idle" /\ ret[t] = "err" /\ IS_ERR(bfi[t])
    /\ lock = NoThread /\ table = {}

\* C10: an entry that stays in the table keeps a set unlinked flag, and an
\* entry that enters the table has open_count 0 and unlinked false,
\* whatever the cell held before.
UnlinkedMonotone ==
  [][\A a \in Addrs :
       /\ (a \in table /\ a \in table' /\ heap[a].unlinked) => heap'[a].unlinked
       /\ (a \notin table /\ a \in table') =>
            (heap'[a].open_count = 0 /\ ~heap'[a].unlinked)]_vars

\* the key of a destroyed, unlinked entry is being created again, in the
\* cell that still holds the old flag
UnlinkedMonotoneWitness ==
  \E t \in Threads, a \in Addrs :
    /\ pc[t] = "alloc" /\ a \in CallocResults
    /\ heap[a].unlinked /\ heap[a].key = ino[t]

\* C11: a bf_inode_unlink that finds an open entry already marked unlinked
\* returns false and changes neither the table nor any field of any entry.
UnlinkIdempotent ==
  [][\A t \in Threads :
       (/\ pc[t] = "unlink" /\ pc'[t] = "unlock"
        /\ RhtLookup(ino[t]) # NULL
        /\ heap[RhtLookup(ino[t])].unlinked
        /\ heap[RhtLookup(ino[t])].open_count > 0) =>
         (table' = table /\ heap' = heap /\ Result(t)' = "false")]_vars

\* an unlink of an open entry that an earlier unlink marked is under way
UnlinkIdempotentWitness ==
  \E t \in Threads :
    /\ pc[t] = "unlink" /\ lock = t
    /\ RhtLookup(ino[t]) # NULL
    /\ heap[RhtLookup(ino[t])].unlinked /\ marked[RhtLookup(ino[t])]
    /\ heap[RhtLookup(ino[t])].open_count > 0

\* C12: bf_inode_unlink never changes the table, nor the key, count or
\* allocation of any cell: a missing key leaves every cell as it was, and a
\* present one changes at most the unlinked flag of its entry.
UnlinkFrame ==
  [][\A t \in Threads :
       (pc[t] = "unlink" /\ pc'[t] # "unlink") =>
         /\ table' = table
         /\ \A a \in Addrs :
              /\ heap'[a].open_count = heap[a].open_count
              /\ heap'[a].key = heap[a].key
              /\ heap'[a].alloc = heap[a].alloc
              /\ a # RhtLookup(ino[t]) => heap'[a] = heap[a]]_vars

\* an unlink of a key without entry is about to return, the table still empty
UnlinkFrameWitness ==
  \E t \in Threads :
    /\ pc[t] = "unlock" /\ op[t] = "unlink" /\ bfi[t] = NULL
    /\ Matches(ino[t]) = {} /\ FreeCells = Addrs

\* C13: no step of bf_inode_get changes an entry of the table or a reference
\* count; the table only grows, by at most one entry, and only when the key
\* had none: that entry has the key asked for, open_count 0, unlinked false.
GetFrame ==
  [][\A t \in Threads :
       (op[t] = "get" /\ pc[t] \in {"get", "alloc", "incr", "unlock"}) =>
         /\ refs' = refs
         /\ \A a \in table : a \in table' /\ heap'[a] = heap[a]
         /\ \A a \in table' \ table :
              /\ Matches(ino[t]) = {}
              /\ table' = table \cup {a}
              /\ heap'[a].key = ino[t]
              /\ heap'[a].open_count = 0
              /\ ~heap'[a].unlinked]_vars

\* a get that made the entry is about to return it, the count still 0
GetFrameWitness ==
  \E t \in Threads :
    /\ pc[t] = "unlock" /\ op[t] = "get" /\ created[t]
    /\ bfi[t] \in table /\ heap[bfi[t]].open_count = 0

\* C14: the pointer a caller got from bf_inode_get or bf_inode_get_ref never
\* refers to a cell that a put has taken out of the table and freed.
NoDanglingHandle ==
  \A t \in Threads :
    (pc[t] = "idle" /\ ret[t] = "ptr") =>
      (heap[bfi[t]].alloc /\ bfi[t] \in table)

\* C15: once bf_inode_destroy has returned no entry is left allocated.
DestroyFreesEntries ==
  (\E t \in Threads : pc[t] = "destroyed") =>
    \A a \in Addrs : ~heap[a].alloc

\* C16: a concurrent run equals the run of the same calls one at a time in the
\* order they took the mutex: between calls the table is what the calls run
\* alone would have left, and a call about to return has the result and leaves
\* the table that the call run alone on that state gives; a call stopped by a
\* BUG_ON is one that stops when run alone.
Linearizable ==
  /\ lock = NoThread => Abs = seq
  /\ \A t \in Threads :
       pc[t] = "unlock" =>
         LET r == SeqOp(op[t], seq, ino[t], cnt[t], IS_ERR(bfi[t]))
         IN r.result = Result(t) /\ r.state = Abs
  /\ \A t \in Threads :
       pc[t] = "abort" =>
         SeqOp(op[t], seq, ino[t], cnt[t], IS_ERR(bfi[t])).result = "abort"

\* a put about to return true saw the reference and the unlink of earlier
\* calls, one of them made by the other thread
LinearizableWitness ==
  \E t, u \in Threads :
    /\ t # u
    /\ pc[t] = "unlock" /\ op[t] = "put" /\ delete[t]
    /\ pc[u] = "idle" /\ ret[u] \in {"ptr", "false"}
    /\ seq[ino[t]].present /\ seq[ino[t]].unlinked

\* C17: a thread inside one of the four functions holds the mutex, so every
\* step that reads or writes the table or an entry is made by the holder; at
\* most one thread is inside at a time; every return releases the mutex, so
\* the mutex is free when no call is in progress.
LockDiscipline ==
  /\ \A t \in Threads : pc[t] \notin {"idle", "abort"} => lock = t
  /\ \A t, u \in Threads :
       (pc[t] \notin {"idle", "abort"} /\ pc[u] \notin {"idle", "abort"}) => t = u
  /\ (\A t \in Threads : pc[t] = "idle") => lock = NoThread
  /\ \A t \in Threads :
       (pc[t] = "idle" /\ ret[t] # "none") => lock # t

\* a get or get_ref has returned the out of memory error and the other thread
\* has taken the mutex after it
LockDisciplineWitness ==
  \E t, u \in Threads :
    /\ pc[t] = "idle" /\ ret[t] = "err"
    /\ pc[u] \in {"get", "unlink"} /\ lock = u

\* C18: the table never holds two entries with one key, and the create path
\* of __bf_inode_get is only entered for a key the table does not hold, so
\* its BUG_ON(ret == EEXIST) never fires.
UniqueKeys ==
  /\ [](\A i \in Ids : Cardinality(Matches(i)) <= 1)
  /\ [](\A t \in Threads : pc[t] = "alloc" => Matches(ino[t]) = {})
  /\ [][\A t \in Threads :
          pc[t] = "alloc" => (pc'[t] # "abort" /\ RhtInsertRet(ino[t]) # EEXIST)]_vars

\* a call found the entry that an earlier call of the other thread created
UniqueKeysWitness ==
  \E t, u \in Threads :
    /\ t # u
    /\ pc[t] \in {"incr", "check"} /\ ~created[t]
    /\ bfi[t] \in table /\ heap[bfi[t]].key = ino[t]
    /\ pc[u] = "idle" /\ ret[u] = "ptr" /\ bfi[u] = bfi[t]

\* C19: after bf_inode_unlink of a key has returned false, once every
\* reference of the key is released a put of the key has returned true: no
\* entry stays in the table marked unlinked with no reference outstanding.
DeferredDeleteNotLost ==
  lock = NoThread =>
    \A i \in Ids :
      \A a \in Matches(i) : marked[a] => refs[i] > 0

\* C20: a bf_inode_get or bf_inode_get_ref about to return a pointer returns
\* the entry the table holds for the key, and bf_inode_get_ref increments
\* only an entry that is in the table.
ReturnedEntryInTable ==
  \A t \in Threads :
    (pc[t] \in {"incr", "unlock"} /\ op[t] \in {"get", "get_ref"} /\ ~IS_ERR(bfi[t])) =>
      (bfi[t] \in table /\ heap[bfi[t]].key = ino[t])

====
